---- MODULE Spec2Model ----
(***************************************************************************)
(* A model of src/main.py: the leaflet scraper of prospektmaschine.de.     *)
(*                                                                         *)
(* Texts that the program reads into (the date description of a            *)
(* listing) or strips (a link's text) are sequences of one-character       *)
(* strings; an empty Python string is the empty sequence.  Texts that the  *)
(* program only copies (an image source, the title) are atomic strings.    *)
(***************************************************************************)
EXTENDS Integers, Sequences, FiniteSets, TLC

VARIABLES
    pc,                 \* position of the run inside ProspektMaschineScraper.scrape
    hypermarket_links,  \* scrape_all_leaflets: the selected links, as their texts
    i,                  \* scrape_all_leaflets: index of the link the for loop is at
    leaflet_elements,   \* __scrape_leaflets: the selected listing fragments
    j,                  \* __scrape_leaflets: index of the fragment the for loop is at
    leaflets,           \* __scrape_leaflets: the local list of Leaflet objects
    collection,         \* LeafletCollection.collection (an insertion-ordered dict)
    saved,              \* content of leaflets.json, NotWritten before save_json
    error,              \* the exception that ended the run, "none" if none did
    failedAt,           \* history: first link whose page came with a non-success status
    fetchStarted,       \* history: indexes of the links whose page fetch has started
    appendCalls,        \* history: the (key, data) arguments of every append call
    pages,              \* history: the fragments selected on each link's page
    saveCalls,          \* history: number of save_json calls
    dates,              \* parser runs: the date text of the fragment handed over
    tokens,             \* parser runs: number of pieces that text was put together from
    leaflet             \* parser runs: what __extract_leaflet_data did with it

vars == <<pc, hypermarket_links, i, leaflet_elements, j, leaflets, collection,
          saved, error, failedAt, fetchStarted, appendCalls, pages, saveCalls,
          dates, tokens, leaflet>>

runVars == <<pc, hypermarket_links, i, leaflet_elements, j, leaflets, saved,
             error, failedAt, fetchStarted, appendCalls, pages, saveCalls>>

(***************************************************************************)
(* Bounds of the model.                                                    *)
(***************************************************************************)
MaxLinks == 2

MaxFragments == 3

MaxTokens == 5

MaxAppended == 3

(***************************************************************************)
(* Characters, as the re module classifies them.                           *)
(***************************************************************************)
Digits == {"0", "1", "2", "3", "4", "5", "6", "7", "8", "9"}

Whitespace == {" ", "\t", "\n", "\r", "\f"}

IsDigit(c) == c \in Digits

IsSpace(c) == c \in Whitespace

\* Python's None where a string is expected (an image source, an abort reason)
None == "None"

\* no match object: pattern.search returned None
NoMatch == <<>>

\* leaflets.json does not exist
NotWritten == <<>>

(***************************************************************************)
(* LeafletScraper.__parser_date.  The pattern is                           *)
(*   (\d{2}\.\d{2}\.?(?:\d{4})?)\s*-\s*(\d{2}\.\d{2}\.\d{4})               *)
(* and pattern.search tries every position from the left, at each position *)
(* the alternatives of the optional parts in the order the backtracking    *)
(* matcher tries them (greedy: the optional part present first).           *)
(***************************************************************************)
\* \d{2}\.\d{2} at position p
DayMonthAt(t, p) ==
    /\ p >= 1
    /\ p + 4 <= Len(t)
    /\ IsDigit(t[p]) /\ IsDigit(t[p + 1])
    /\ t[p + 2] = "."
    /\ IsDigit(t[p + 3]) /\ IsDigit(t[p + 4])

\* \d{4} at position p
YearAt(t, p) ==
    /\ p >= 1
    /\ p + 3 <= Len(t)
    /\ \A k \in 0..3 : IsDigit(t[p + k])

\* \. at position p
DotAt(t, p) == p >= 1 /\ p <= Len(t) /\ t[p] = "."

\* \s* from position p: the position after the whitespace run (greedy; giving
\* characters back never helps, the next item is never whitespace)
RECURSIVE SkipSpace(_, _)
SkipSpace(t, p) ==
    IF p <= Len(t) /\ IsSpace(t[p]) THEN SkipSpace(t, p + 1) ELSE p

\* \s*-\s*(\d{2}\.\d{2}\.\d{4}) from position q: the position of group 2, 0 if
\* the rest of the pattern does not match from q
TailAt(t, q) ==
    LET a == SkipSpace(t, q) IN
    IF a <= Len(t) /\ t[a] = "-"
    THEN LET b == SkipSpace(t, a + 1) IN
         IF DayMonthAt(t, b) /\ DotAt(t, b + 5) /\ YearAt(t, b + 6) THEN b ELSE 0
    ELSE 0

\* the lengths group 1 can take at position p, in the order they are tried:
\* \.? present then (?:\d{4})? present, \.? present alone, \d{4} alone, neither
StartLengths(t, p) ==
    LET withDotYear == IF DotAt(t, p + 5) /\ YearAt(t, p + 6) THEN <<10>> ELSE <<>>
        withDot     == IF DotAt(t, p + 5) THEN <<6>> ELSE <<>>
        withYear    == IF YearAt(t, p + 5) THEN <<9>> ELSE <<>>
    IN  withDotYear \o withDot \o withYear \o <<5>>

\* the first length of ls from which the rest of the pattern matches, 0 if none
RECURSIVE FirstMatching(_, _, _)
FirstMatching(t, p, ls) ==
    IF ls = <<>> THEN 0
    ELSE IF TailAt(t, p + Head(ls)) # 0 THEN Head(ls)
    ELSE FirstMatching(t, p, Tail(ls))

\* MatchAt with group 1 closed after the \s* that follows the start
MatchAt_GroupTakesSpace(t, p) ==
    IF ~DayMonthAt(t, p) THEN NoMatch
    ELSE LET n == FirstMatching(t, p, StartLengths(t, p)) IN
         IF n = 0 THEN NoMatch
         ELSE LET b == TailAt(t, p + n) IN
              <<SubSeq(t, p, SkipSpace(t, p + n) - 1), SubSeq(t, b, b + 9)>>

\* the match of the whole pattern anchored at p: match.groups() or NoMatch
MatchAt(t, p) ==
    IF ~DayMonthAt(t, p) THEN NoMatch
    ELSE LET n == FirstMatching(t, p, StartLengths(t, p)) IN
         IF n = 0 THEN NoMatch
         ELSE LET b == TailAt(t, p + n) IN
              <<SubSeq(t, p, p + n - 1), SubSeq(t, b, b + 9)>>

\* pattern.search(dates): the match at the leftmost position that has one
RECURSIVE SearchFrom(_, _)
SearchFrom(t, p) ==
    IF p > Len(t) THEN NoMatch
    ELSE IF MatchAt(t, p) # NoMatch THEN MatchAt(t, p)
    ELSE SearchFrom(t, p + 1)

\* search taking the last match of the text instead of the first
RECURSIVE SearchBack(_, _)
SearchBack(t, p) ==
    IF p < 1 THEN NoMatch
    ELSE IF MatchAt(t, p) # NoMatch THEN MatchAt(t, p)
    ELSE SearchBack(t, p - 1)

search_Last(t) == SearchBack(t, Len(t))

search(t) == SearchFrom(t, 1)

parser_date(t) ==
    LET match == search(t) IN
    IF match = NoMatch THEN <<<<>>, <<>>>> ELSE match

(***************************************************************************)
(* Leaflet: the object __init__ builds, and to_dict.                       *)
(***************************************************************************)
\* datetime.now().strftime(...): the wall clock is the environment's; no
\* operation of the program reads parsed_time back
Timestamps == {"2026-01-01 00:00:00"}

Leaflet(title, thumbnail, shop_name, valid_from, valid_to, now) ==
    [title |-> title, thumbnail |-> thumbnail, shop_name |-> shop_name,
     valid_from |-> valid_from, valid_to |-> valid_to, parsed_time |-> now]

to_dict(self) ==
    [title |-> self.title, thumbnail |-> self.thumbnail,
     shop_name |-> self.shop_name, valid_from |-> self.valid_from,
     valid_to |-> self.valid_to, parsed_time |-> self.parsed_time]

(***************************************************************************)
(* A listing fragment, as the two select_one calls see it: img is the src  *)
(* of its 'picture img' (None: no such element, or one without src),       *)
(* has_date tells whether DATE_SELECTOR finds an element and date_text is  *)
(* that element's text.                                                    *)
(***************************************************************************)
Fragment(img, has_date, date_text) ==
    [img |-> img, has_date |-> has_date, date_text |-> date_text]

NoLeaflet == <<>>

\* __extract_leaflet_data reading the image source with a default ('') where
\* the element or its src is missing
extract_leaflet_data_DefaultThumbnail(element, hypermarket_name, now) ==
    IF ~element.has_date
    THEN [raised |-> "AttributeError", value |-> NoLeaflet]
    ELSE LET parsed == parser_date(element.date_text) IN
         [raised |-> "none",
          value  |-> <<Leaflet("Prospekt",
                               IF element.img = None THEN "" ELSE element.img,
                               hypermarket_name, parsed[1], parsed[2], now)>>]

\* __extract_leaflet_data with a parser that calls match.groups() without
\* the test of the match: AttributeError where the pattern matches nowhere
extract_leaflet_data_RaiseOnNoMatch(element, hypermarket_name, now) ==
    IF element.img = None
    THEN [raised |-> "TypeError", value |-> NoLeaflet]
    ELSE IF ~element.has_date \/ search(element.date_text) = NoMatch
    THEN [raised |-> "AttributeError", value |-> NoLeaflet]
    ELSE LET parsed == parser_date(element.date_text) IN
         [raised |-> "none",
          value  |-> <<Leaflet("Prospekt", element.img, hypermarket_name,
                               parsed[1], parsed[2], now)>>]

\* LeafletScraper.__extract_leaflet_data: what it raises ("none": nothing) and
\* the Leaflet it returns.  The image is read first, the date text second.
extract_leaflet_data(element, hypermarket_name, now) ==
    IF element.img = None
    THEN [raised |-> "TypeError", value |-> NoLeaflet]
    ELSE IF ~element.has_date
    THEN [raised |-> "AttributeError", value |-> NoLeaflet]
    ELSE LET parsed == parser_date(element.date_text) IN
         [raised |-> "none",
          value  |-> <<Leaflet("Prospekt", element.img, hypermarket_name,
                               parsed[1], parsed[2], now)>>]

(***************************************************************************)
(* LeafletCollection.  The dict is a sequence of entries in insertion      *)
(* order, each a key with its list.                                        *)
(***************************************************************************)
Keys(c) == {c[n].key : n \in 1..Len(c)}

KeyOrder(c) == [n \in 1..Len(c) |-> c[n].key]

IndexOf(c, key) == CHOOSE n \in 1..Len(c) : c[n].key = key

\* self.collection[key], <<>> for a key the dict does not hold
Lookup(c, key) == IF key \in Keys(c) THEN c[IndexOf(c, key)].data ELSE <<>>

\* append assigning the list where it should extend it
append_Overwrite(c, key, data) ==
    LET created == IF key \notin Keys(c)
                   THEN Append(c, [key |-> key, data |-> <<>>])
                   ELSE c
        n == IndexOf(created, key)
    IN  [created EXCEPT ![n].data = data]

\* LeafletCollection.append
append(c, key, data) ==
    LET created == IF key \notin Keys(c)
                   THEN Append(c, [key |-> key, data |-> <<>>])
                   ELSE c
        n == IndexOf(created, key)
    IN  [created EXCEPT ![n].data = @ \o data]

\* LeafletCollection.__serialize
serialize(c) ==
    [n \in 1..Len(c) |->
        [key |-> c[n].key,
         data |-> [m \in 1..Len(c[n].data) |-> to_dict(c[n].data[m])]]]

\* DataSaver.save_json: the file is opened with "w" and holds the dump of
\* json_data alone, whatever it held before
save_json(file, json_data) == <<json_data>>

(***************************************************************************)
(* Parser runs: before any run of the scraper, __extract_leaflet_data is   *)
(* called on a fragment that has both elements, with date texts put        *)
(* together from the pieces below.                                         *)
(***************************************************************************)
Pieces ==
    { <<"0", "1", ".", "0", "3">>,
      <<"0", "1", ".", "0", "3", ".">>,
      <<"0", "7", ".", "0", "3", ".", "2", "0", "2", "4">>,
      <<"1", "4", ".", "0", "4", ".", "2", "0", "2", "5">>,
      <<"2", "0", "2", "4">>,
      <<".">>, <<"-">>, <<" ">> }

NotCalled == [raised |-> "not called", value |-> NoLeaflet]

InitRun ==
    /\ pc = "start"
    /\ hypermarket_links = <<>>
    /\ i = 1
    /\ leaflet_elements = <<>>
    /\ j = 1
    /\ leaflets = <<>>
    /\ saved = NotWritten
    /\ error = "none"
    /\ failedAt = 0
    /\ fetchStarted = {}
    /\ appendCalls = <<>>
    /\ pages = <<>>
    /\ saveCalls = 0

InitParser ==
    /\ InitRun
    /\ collection = <<>>
    /\ dates = <<>>
    /\ tokens = 0
    /\ leaflet = NotCalled

ExtractCall ==
    /\ pc = "start"
    /\ tokens < MaxTokens
    /\ \E piece \in Pieces, now \in Timestamps :
         /\ dates' = dates \o piece
         /\ leaflet' = extract_leaflet_data(
                           Fragment("/img1.jpg", TRUE, dates'), "ShopA", now)
    /\ tokens' = tokens + 1
    /\ UNCHANGED <<runVars, collection>>

NextParser == ExtractCall

SpecParser == InitParser /\ [][NextParser]_vars

(***************************************************************************)
(* The run: ProspektMaschineScraper.scrape.                                *)
(*                                                                         *)
(* The site is the environment.  A fetch either raises (requests raises on *)
(* a connection error or a timeout) or returns a response; the response's  *)
(* status code is never read, its content is parsed whatever the status.   *)
(***************************************************************************)
StatusCodes == {200, 404}

IsSuccess(status) == status < 400

\* link.text of the links the directory page can hold
LinkTexts == { <<"A">>, <<" ", "A", "\n">>, <<"B">> }

\* str.strip()
RECURSIVE lstrip(_)
lstrip(s) == IF s # <<>> /\ IsSpace(Head(s)) THEN lstrip(Tail(s)) ELSE s

RECURSIVE rstrip(_)
rstrip(s) ==
    IF s # <<>> /\ IsSpace(s[Len(s)]) THEN rstrip(SubSeq(s, 1, Len(s) - 1)) ELSE s

strip(s) == rstrip(lstrip(s))

\* date texts of the listings: one with a range and one without (its end
\* date lacks the year)
RangeText ==
    <<"a", "b", " ", "0", "1", ".", "0", "3", " ", "-", " ",
      "0", "7", ".", "0", "3", ".", "2", "0", "2", "4">>

ProseText ==
    <<"a", "b", " ", "0", "1", ".", "0", "3", " ", "-", " ", "0", "7", ".", "0", "3">>

\* the listing fragments a page can hold
Fragments ==
    { Fragment("/img1.jpg", TRUE, RangeText),
      Fragment("/img1.jpg", TRUE, ProseText),
      Fragment(None, TRUE, RangeText),
      Fragment("/img1.jpg", FALSE, <<>>) }

SeqsUpTo(S, n) == UNION {[1..m -> S] : m \in 0..n}

RECURSIVE SumLen(_)
SumLen(ss) == IF ss = <<>> THEN 0 ELSE Len(Head(ss)) + SumLen(Tail(ss))

\* hypermarket_name of the link the loop is at
hypermarket_name == strip(hypermarket_links[i])

Init ==
    /\ InitRun
    /\ collection = <<>>
    /\ dates = <<>>
    /\ tokens = 0
    /\ leaflet = NotCalled

\* an exception leaves scrape(): nothing catches it, the process ends
Abort(exception) ==
    /\ pc' = "aborted"
    /\ error' = exception

\* scrape_all_leaflets up to the loop: the directory fetch, the link selection
\* and the empty LeafletCollection
FetchDirectory ==
    /\ pc = "start"
    /\ \/ /\ Abort("RequestException")
          /\ UNCHANGED <<hypermarket_links, collection>>
       \/ \E status \in StatusCodes, links \in SeqsUpTo(LinkTexts, MaxLinks) :
            /\ hypermarket_links' = links
            /\ collection' = <<>>
            /\ pc' = "links"
            /\ UNCHANGED error
    /\ UNCHANGED <<i, leaflet_elements, j, leaflets, saved, failedAt,
                   fetchStarted, appendCalls, pages, saveCalls, dates, tokens,
                   leaflet>>

\* FetchLeaflets that also starts the fetch of the next link's page
FetchLeaflets_Prefetch ==
    /\ pc = "links"
    /\ i <= Len(hypermarket_links)
    /\ fetchStarted' = fetchStarted \cup {n \in {i, i + 1} : n <= Len(hypermarket_links)}
    /\ \/ /\ Abort("RequestException")
          /\ UNCHANGED <<leaflet_elements, j, leaflets, failedAt, pages>>
       \/ \E status \in StatusCodes,
             elements \in SeqsUpTo(Fragments, MaxFragments - SumLen(pages)) :
            /\ leaflet_elements' = elements
            /\ j' = 1
            /\ leaflets' = <<>>
            /\ pages' = Append(pages, elements)
            /\ failedAt' = IF ~IsSuccess(status) /\ failedAt = 0 THEN i ELSE failedAt
            /\ pc' = "fragments"
            /\ UNCHANGED error
    /\ UNCHANGED <<hypermarket_links, i, collection, saved, appendCalls,
                   saveCalls, dates, tokens, leaflet>>

\* the loop body up to __scrape_leaflets' own loop: the page fetch and the
\* selection of the listing fragments
FetchLeaflets ==
    /\ pc = "links"
    /\ i <= Len(hypermarket_links)
    /\ fetchStarted' = fetchStarted \cup {i}
    /\ \/ /\ Abort("RequestException")
          /\ UNCHANGED <<leaflet_elements, j, leaflets, failedAt, pages>>
       \/ \E status \in StatusCodes,
             elements \in SeqsUpTo(Fragments, MaxFragments - SumLen(pages)) :
            /\ leaflet_elements' = elements
            /\ j' = 1
            /\ leaflets' = <<>>
            /\ pages' = Append(pages, elements)
            /\ failedAt' = IF ~IsSuccess(status) /\ failedAt = 0 THEN i ELSE failedAt
            /\ pc' = "fragments"
            /\ UNCHANGED error
    /\ UNCHANGED <<hypermarket_links, i, collection, saved, appendCalls,
                   saveCalls, dates, tokens, leaflet>>

\* ExtractLeaflet putting the Leaflet at the head of the list
ExtractLeaflet_Prepend ==
    /\ pc = "fragments"
    /\ j <= Len(leaflet_elements)
    /\ \E now \in Timestamps :
         LET result == extract_leaflet_data(leaflet_elements[j],
                                            hypermarket_name, now) IN
         IF result.raised # "none"
         THEN /\ Abort(result.raised)
              /\ UNCHANGED <<j, leaflets>>
         ELSE /\ leaflets' = result.value \o leaflets
              /\ j' = j + 1
              /\ UNCHANGED <<pc, error>>
    /\ UNCHANGED <<hypermarket_links, i, leaflet_elements, collection, saved,
                   failedAt, fetchStarted, appendCalls, pages, saveCalls,
                   dates, tokens, leaflet>>

\* one round of __scrape_leaflets' loop
ExtractLeaflet ==
    /\ pc = "fragments"
    /\ j <= Len(leaflet_elements)
    /\ \E now \in Timestamps :
         LET result == extract_leaflet_data(leaflet_elements[j],
                                            hypermarket_name, now) IN
         IF result.raised # "none"
         THEN /\ Abort(result.raised)
              /\ UNCHANGED <<j, leaflets>>
         ELSE /\ leaflets' = leaflets \o result.value
              /\ j' = j + 1
              /\ UNCHANGED <<pc, error>>
    /\ UNCHANGED <<hypermarket_links, i, leaflet_elements, collection, saved,
                   failedAt, fetchStarted, appendCalls, pages, saveCalls,
                   dates, tokens, leaflet>>

\* AppendLeaflets that appends only a list that holds something
AppendLeaflets_SkipEmpty ==
    /\ pc = "fragments"
    /\ j > Len(leaflet_elements)
    /\ IF leaflets = <<>>
       THEN UNCHANGED <<collection, appendCalls>>
       ELSE /\ collection' = append(collection, hypermarket_name, leaflets)
            /\ appendCalls' = Append(appendCalls, <<hypermarket_name, leaflets>>)
    /\ i' = i + 1
    /\ pc' = "links"
    /\ UNCHANGED <<hypermarket_links, leaflet_elements, j, leaflets, saved,
                   error, failedAt, fetchStarted, pages, saveCalls, dates,
                   tokens, leaflet>>

\* __scrape_leaflets returns and the loop body appends what it returned
AppendLeaflets ==
    /\ pc = "fragments"
    /\ j > Len(leaflet_elements)
    /\ collection' = append(collection, hypermarket_name, leaflets)
    /\ appendCalls' = Append(appendCalls, <<hypermarket_name, leaflets>>)
    /\ i' = i + 1
    /\ pc' = "links"
    /\ UNCHANGED <<hypermarket_links, leaflet_elements, j, leaflets, saved,
                   error, failedAt, fetchStarted, pages, saveCalls, dates,
                   tokens, leaflet>>

\* GetJson with the return of scrape_all_leaflets inside the loop: taken at
\* the end of the first round
GetJson_ReturnInLoop ==
    /\ pc = "links"
    /\ (i > Len(hypermarket_links) \/ i > 1)
    /\ saved' = save_json(saved, serialize(collection))
    /\ saveCalls' = saveCalls + 1
    /\ pc' = "written"
    /\ UNCHANGED <<hypermarket_links, i, leaflet_elements, j, leaflets,
                   collection, error, failedAt, fetchStarted, appendCalls,
                   pages, dates, tokens, leaflet>>

\* the loop is over: scrape_all_leaflets returns and scrape calls get_json
GetJson ==
    /\ pc = "links"
    /\ i > Len(hypermarket_links)
    /\ saved' = save_json(saved, serialize(collection))
    /\ saveCalls' = saveCalls + 1
    /\ pc' = "written"
    /\ UNCHANGED <<hypermarket_links, i, leaflet_elements, j, leaflets,
                   collection, error, failedAt, fetchStarted, appendCalls,
                   pages, dates, tokens, leaflet>>

Next ==
    \/ FetchDirectory
    \/ FetchLeaflets
    \/ ExtractLeaflet
    \/ AppendLeaflets
    \/ GetJson

Spec == Init /\ [][Next]_vars

(***************************************************************************)
(* Append runs: LeafletCollection.append called with any key and list.     *)
(***************************************************************************)
SampleKeys == { <<"A">>, <<"B">> }

SampleLeaflets ==
    { Leaflet("Prospekt", "/img1.jpg", <<"A">>, <<>>, <<>>, now) : now \in Timestamps }
    \cup
    { Leaflet("Prospekt", "/img2.jpg", <<"A">>, <<>>, <<>>, now) : now \in Timestamps }

Size(c) == SumLen([n \in 1..Len(c) |-> c[n].data])

AppendCall ==
    /\ \E key \in SampleKeys,
          data \in SeqsUpTo(SampleLeaflets, MaxAppended - Size(collection)) :
         collection' = append(collection, key, data)
    /\ UNCHANGED <<runVars, dates, tokens, leaflet>>

NextAppend == AppendCall

SpecAppend == Init /\ [][NextAppend]_vars

(***************************************************************************)
(* Runs of the scraper together with parser runs: either a run of scrape   *)
(* or a series of __extract_leaflet_data calls.                            *)
(***************************************************************************)
NextAll ==
    \/ tokens = 0 /\ Next
    \/ ExtractCall

SpecAll == Init /\ [][NextAll]_vars

(***************************************************************************)
(* The date forms the claims speak of, read off a string by its            *)
(* characters.                                                             *)
(***************************************************************************)
AllDigits(s, lo, hi) == \A k \in lo..hi : s[k] \in Digits

\* DD.DD
IsDayMonth(s) ==
    Len(s) = 5 /\ AllDigits(s, 1, 2) /\ s[3] = "." /\ AllDigits(s, 4, 5)

\* DD.DD.YYYY
IsDayMonthYear(s) ==
    /\ Len(s) = 10
    /\ AllDigits(s, 1, 2) /\ s[3] = "." /\ AllDigits(s, 4, 5)
    /\ s[6] = "." /\ AllDigits(s, 7, 10)

\* DD.DD. (a dot and no year)
IsDayMonthDot(s) ==
    Len(s) = 6 /\ AllDigits(s, 1, 2) /\ s[3] = "." /\ AllDigits(s, 4, 5) /\ s[6] = "."

\* DD.DDYYYY (a year and no dot)
IsDayMonthDigits(s) ==
    Len(s) = 9 /\ AllDigits(s, 1, 2) /\ s[3] = "." /\ AllDigits(s, 4, 5)
    /\ AllDigits(s, 6, 9)

\* the start forms of the specification, and those the pattern takes
SpecStarts(s) == IsDayMonth(s) \/ IsDayMonthYear(s)

PatternStarts(s) ==
    IsDayMonth(s) \/ IsDayMonthDot(s) \/ IsDayMonthDigits(s) \/ IsDayMonthYear(s)

\* the positions of a hyphen that only whitespace separates from position q
HyphensAfter(t, q) ==
    { a \in q..Len(t) : t[a] = "-" /\ \A k \in q..(a - 1) : t[k] \in Whitespace }

\* the positions of a DD.DD.YYYY that only whitespace separates from position q
EndsAfter(t, q) ==
    { b \in q..(Len(t) - 9) :
        /\ \A k \in q..(b - 1) : t[k] \in Whitespace
        /\ IsDayMonthYear(SubSeq(t, b, b + 9)) }

\* the ranges of t that start at p with a start of one of the lengths in ns
\* (a start, a hyphen with nothing but whitespace around it, DD.DD.YYYY):
\* each as <<start, end>>
RangesAt(t, p, ns) ==
    IF p + 4 > Len(t) \/ ~IsDayMonth(SubSeq(t, p, p + 4)) THEN {}
    ELSE UNION { UNION { { <<SubSeq(t, p, p + n - 1), SubSeq(t, b, b + 9)>> :
                             b \in EndsAfter(t, a + 1) } :
                         a \in HyphensAfter(t, p + n) } :
                 n \in { m \in ns : /\ p + m - 1 <= Len(t)
                                    /\ PatternStarts(SubSeq(t, p, p + m - 1)) } }

\* the ranges at the leftmost position of t that holds one
LeftmostRanges(t, ns) ==
    LET at == { p \in 1..Len(t) : RangesAt(t, p, ns) # {} } IN
    IF at = {} THEN {}
    ELSE RangesAt(t, CHOOSE p \in at : \A q \in at : p <= q, ns)

SpecLengths == {5, 10}

PatternLengths == {5, 6, 9, 10}

Called == leaflet.raised = "none"

valid_from == leaflet.value[1].valid_from

valid_to == leaflet.value[1].valid_to

SpecDates(from, to) ==
    /\ (from = <<>>) <=> (to = <<>>)
    /\ from # <<>> => SpecStarts(from)
    /\ to # <<>> => IsDayMonthYear(to)

\* the two dates of a Leaflet, with the start forms the pattern takes
PatternDates(from, to) ==
    /\ (from = <<>>) <=> (to = <<>>)
    /\ from # <<>> => PatternStarts(from)
    /\ to # <<>> => IsDayMonthYear(to)

NameOf(n) == strip(hypermarket_links[n])

\* the fragment lacks the image (or its src) or the date element
Broken(fragment) == fragment.img = None \/ ~fragment.has_date

\* the dates a text holds: those of its leftmost range, two empty strings if
\* it holds no range
DatesIn(text) ==
    LET ranges == LeftmostRanges(text, PatternLengths) IN
    IF ranges = {} THEN <<<<>>, <<>>>> ELSE CHOOSE r \in ranges : TRUE

\* record is the Leaflet of that fragment of that retailer (its capture time
\* aside)
LeafletOf(record, fragment, name) ==
    /\ record.title = "Prospekt"
    /\ record.thumbnail = fragment.img
    /\ record.shop_name = name
    /\ <<record.valid_from, record.valid_to>> = DatesIn(fragment.date_text)

\* records are the Leaflets of those fragments, one each, in their order
LeafletsOf(records, fragments, name) ==
    /\ Len(records) = Len(fragments)
    /\ \A m \in 1..Len(records) : LeafletOf(records[m], fragments[m], name)

\* names without the repetitions, each at its first place
RECURSIVE FirstNames(_)
FirstNames(n) ==
    IF n = 0 THEN <<>>
    ELSE LET before == FirstNames(n - 1) IN
         IF \E k \in 1..Len(before) : before[k] = NameOf(n)
         THEN before ELSE Append(before, NameOf(n))

\* the fragments of the first n links' pages that bear the name, in link order
RECURSIVE FragmentsOf(_, _)
FragmentsOf(name, n) ==
    IF n = 0 THEN <<>>
    ELSE FragmentsOf(name, n - 1) \o (IF NameOf(n) = name THEN pages[n] ELSE <<>>)

\* the append calls made with the key
CallsWith(key) == {n \in 1..Len(appendCalls) : appendCalls[n][1] = key}

\* the fetched fragments that are broken, as <<link, place on its page>>
BrokenPlaces ==
    { <<n, m>> \in (1..Len(pages)) \X (1..MaxFragments) :
        m <= Len(pages[n]) /\ Broken(pages[n][m]) }

(***************************************************************************)
(* C1: once the page of a retailer has come with a non-success status, the *)
(* document is never written and no later retailer's page is fetched.      *)
(***************************************************************************)
C1_NonSuccessStatusAborts ==
    failedAt # 0 =>
        /\ pc # "written"
        /\ saved = NotWritten
        /\ \A n \in fetchStarted : n <= failedAt

(***************************************************************************)
(* C2: the document is written at most once, and only when the directory   *)
(* and every retailer's page have been fetched, every fragment extracted   *)
(* and every retailer appended; a fetch that raises ends the run there,    *)
(* with no document.                                                       *)
(***************************************************************************)
C2_NoPartialOutput ==
    /\ saveCalls <= 1
    /\ (saved # NotWritten \/ saveCalls = 1) =>
          /\ pc = "written" /\ error = "none"
          /\ saveCalls = 1
          /\ fetchStarted = 1..Len(hypermarket_links)
          /\ Len(pages) = Len(hypermarket_links)
          /\ Len(appendCalls) = Len(hypermarket_links)
          /\ Size(collection) = SumLen(pages)
    /\ error = "RequestException" =>
          /\ pc = "aborted"
          /\ saved = NotWritten /\ saveCalls = 0
          /\ Len(appendCalls) = i - 1
          /\ Len(pages) = i - 1
          /\ \A n \in fetchStarted : n <= i

\* the document written after two retailers, three fragments in all
C2_Witness ==
    /\ pc = "written" /\ saved # NotWritten
    /\ Len(hypermarket_links) = 2
    /\ Size(collection) = 3

(***************************************************************************)
(* C3: a fragment without the image or without the date element ends the   *)
(* run at that fragment: the loop never passes it, no Leaflet is made of   *)
(* it, its retailer is not appended, no later page is fetched, nothing is  *)
(* written, and the run ends by the exception of the missing element.      *)
(***************************************************************************)
C3_BrokenFragmentAborts ==
    /\ \A place \in BrokenPlaces :
          LET n == place[1]
              m == place[2]
          IN  /\ i = n
              /\ j <= m
              /\ Len(leaflets) < m
              /\ Len(appendCalls) = n - 1
              /\ \A k \in fetchStarted : k <= n
              /\ pc \in {"fragments", "aborted"}
              /\ saved = NotWritten /\ saveCalls = 0
    /\ (BrokenPlaces # {} /\ pc = "aborted") =>
          /\ <<i, j>> \in BrokenPlaces
          /\ error = IF pages[i][j].img = None
                     THEN "TypeError" ELSE "AttributeError"

\* the second retailer's second fragment has no date element: the run ended
C3_Witness ==
    /\ pc = "aborted" /\ error = "AttributeError"
    /\ i = 2 /\ j = 2
    /\ Len(collection) = 1
    /\ <<2, 2>> \in BrokenPlaces

C5_Sequential ==
    /\ \A n \in fetchStarted : Len(appendCalls) >= n - 1
    /\ Cardinality({n \in fetchStarted : n > Len(appendCalls)}) <= 1

\* the second link's page is fetched, the first link is appended
C5_Witness ==
    /\ fetchStarted = {1, 2}
    /\ Len(appendCalls) = 1
    /\ pc = "fragments"

(***************************************************************************)
(* C6, as stated: when the document is written the Aggregate has one key   *)
(* per link, in link order, each with the Leaflets of that link's          *)
(* fragments in document order.                                            *)
(***************************************************************************)
C6_OneKeyPerLink ==
    pc = "written" =>
        /\ Len(collection) = Len(hypermarket_links)
        /\ \A n \in 1..Len(collection) :
              /\ collection[n].key = NameOf(n)
              /\ LeafletsOf(collection[n].data, pages[n], NameOf(n))

(***************************************************************************)
(* C6, amended: when the document is written the Aggregate has one key per *)
(* distinct retailer name, in the order of the names' first links, each    *)
(* with the Leaflets of the fragments of all the links that bear the name, *)
(* in link order and, within a link, in document order (one Leaflet per    *)
(* fragment); a name whose pages hold no fragment is a key with an empty   *)
(* sequence.                                                               *)
(***************************************************************************)
C6_OneKeyPerName ==
    pc = "written" =>
        /\ KeyOrder(collection) = FirstNames(Len(hypermarket_links))
        /\ \A n \in 1..Len(collection) :
              LeafletsOf(collection[n].data,
                         FragmentsOf(collection[n].key, Len(hypermarket_links)),
                         collection[n].key)

\* two retailers: the first with two fragments of different dates, the
\* second with none
C6_Witness ==
    /\ pc = "written"
    /\ Len(collection) = 2
    /\ Len(pages[1]) = 2
    /\ collection[1].data[1].valid_from # collection[1].data[2].valid_from
    /\ pages[2] = <<>>
    /\ collection[2].data = <<>>

(***************************************************************************)
(* C7, as stated: every key of the Aggregate has had exactly one append    *)
(* call, with the full list of its retailer, and the Aggregate is          *)
(* serialized once, after the last append.                                 *)
(***************************************************************************)
C7_OneAppendPerKey ==
    /\ \A n \in 1..Len(collection) :
          /\ Cardinality(CallsWith(collection[n].key)) = 1
          /\ \A k \in CallsWith(collection[n].key) :
                LeafletsOf(appendCalls[k][2], pages[k], collection[n].key)
    /\ saveCalls <= 1
    /\ saveCalls = 1 =>
          /\ Len(appendCalls) = Len(hypermarket_links)
          /\ saved = <<serialize(collection)>>

(***************************************************************************)
(* C7, amended: every retailer link has exactly one append call, in link   *)
(* order, with the link's name and the full list of its page (a key has    *)
(* as many append calls as links bear its name: one or more), and the      *)
(* Aggregate is serialized once, after the last append.                    *)
(***************************************************************************)
C7_OneAppendPerLink ==
    /\ Len(appendCalls) = (IF pc = "start" THEN 0 ELSE i - 1)
    /\ \A k \in 1..Len(appendCalls) :
          /\ appendCalls[k][1] = NameOf(k)
          /\ LeafletsOf(appendCalls[k][2], pages[k], NameOf(k))
    /\ \A n \in 1..Len(collection) :
          /\ CallsWith(collection[n].key) # {}
          /\ CallsWith(collection[n].key) =
                {k \in 1..(i - 1) : NameOf(k) = collection[n].key}
    /\ saveCalls <= 1
    /\ saveCalls = 1 =>
          /\ Len(appendCalls) = Len(hypermarket_links)
          /\ saved = <<serialize(collection)>>

\* the Aggregate serialized after two appends, the first one with two Leaflets
C7_Witness ==
    /\ saveCalls = 1
    /\ Len(appendCalls) = 2
    /\ Len(appendCalls[1][2]) = 2
    /\ appendCalls[1][1] # appendCalls[2][1]

(***************************************************************************)
(* C8: from every Aggregate, key and Leaflets a, b: append of [a] and then *)
(* of [b] gives the Aggregate that one append of [a, b] gives; append to a *)
(* key the Aggregate holds extends its sequence and keeps the keys; every  *)
(* other key keeps its sequence.                                           *)
(***************************************************************************)
C8_AppendAssociative ==
    \A key \in SampleKeys : \A a, b \in SampleLeaflets :
        LET once  == append(collection, key, <<a, b>>)
            twice == append(append(collection, key, <<a>>), key, <<b>>)
        IN  /\ twice = once
            /\ Lookup(once, key) = Lookup(collection, key) \o <<a, b>>
            /\ key \in Keys(collection) => KeyOrder(once) = KeyOrder(collection)
            /\ key \notin Keys(collection) =>
                  KeyOrder(once) = Append(KeyOrder(collection), key)
            /\ \A other \in SampleKeys \ {key} :
                  Lookup(once, other) = Lookup(collection, other)

\* an Aggregate of two keys, each with Leaflets, made by append calls
C8_Witness ==
    /\ pc = "start"
    /\ Len(collection) = 2
    /\ Len(collection[1].data) = 2
    /\ Len(collection[2].data) = 1

====
